---- MODULE Spec2Model ----
\* Caching / fallback layer and watchlist mutation logic of routes/crypto.js.
\*
\* Each request handler is an async function: it runs synchronously between
\* two awaits, so every action below is one such synchronous segment.  The
\* awaits are the upstream call (axios.get), the user-record read
\* (User.findById) and the user-record write (user.save).
\*
\* Modelling assumptions (stated where they are used):
\*   - an upstream payload is a JSON array/object, hence truthy in JavaScript;
\*   - coin identifiers are upstream identifiers such as "btc"; none of them is
\*     the name of a property inherited from Object.prototype;
\*   - models/User.js is not part of the sources: the read returns the stored
\*     watchlist as a whole and the save rewrites it as a whole.
EXTENDS Integers, Sequences, FiniteSets, TLC

\* ---------------------------------------------------------------- bounds
MaxRequests == 3        \* requests that arrive in one behaviour of Spec
MaxListRequests == 4    \* watchlist requests that arrive in one behaviour of SpecW
MaxOrderRequests == 2   \* Add/Remove requests that arrive in one behaviour of SpecO

\* ---------------------------------------------------------------- constants
TTL == 30000

Slots == {1, 2}         \* requests that can be pending at the same time
Coins == {"btc", "eth"}
Names == {"Coin"}
\* the instants Date.now() is observed at: the ages 1, TTL - 1 and TTL occur
Times == {0, TTL - 1, TTL}

\* UTF-16 code units of the identifiers, as Array.prototype.sort compares them
CodeUnits == [btc |-> <<98, 116, 99>>, eth |-> <<101, 116, 104>>]

Null == [null |-> TRUE]
NoBody == [none |-> TRUE]
EmptyArray == [rows |-> "[]"]
TopQuery == "top"

Item(c, n) == [coinId |-> c, coinName |-> n]
Items == {Item(c, n) : c \in Coins, n \in Names}
\* response.data: what the upstream answers to query q at time t
Payload(q, t) == [q |-> q, t |-> t]

\* ---------------------------------------------------------------- helpers
\* default comparison of Array.prototype.sort: strings by code units
LexLess(a, b) ==
  LET s == CodeUnits[a]
      t == CodeUnits[b]
      Diff == {i \in 1..Len(s) : i > Len(t) \/ s[i] # t[i]}
      First == CHOOSE i \in Diff : \A j \in Diff : i <= j
  IN  IF Diff = {} THEN Len(s) < Len(t)
      ELSE First <= Len(t) /\ s[First] < t[First]

RECURSIVE Insert(_, _)
Insert(x, s) ==
  IF s = << >> THEN <<x>>
  ELSE IF LexLess(x, Head(s)) THEN <<x>> \o s
  ELSE <<Head(s)>> \o Insert(x, Tail(s))

\* variant of the sort: the identifiers are left in watchlist order
Unsorted(ids) == ids

\* [...arr].sort()
RECURSIVE SortIds(_)
SortIds(ids) ==
  IF ids = << >> THEN << >>
  ELSE Insert(ids[Len(ids)], SortIds(SubSeq(ids, 1, Len(ids) - 1)))

\* arr.join(',')
RECURSIVE Join(_)
Join(ids) ==
  IF ids = << >> THEN ""
  ELSE IF Len(ids) = 1 THEN ids[1]
  ELSE ids[1] \o "," \o Join(Tail(ids))

\* user.watchlist.map(item => item.coinId)
CoinIdsArr(wl) == [i \in 1..Len(wl) |-> wl[i].coinId]

\* the watchlist cache key: sorted identifiers joined with a comma
CacheKey(wl) == Join(SortIds(CoinIdsArr(wl)))

\* variants of the duplicate check: the wrong field; the first item only
AlreadyByName(wl, c) == \E i \in 1..Len(wl) : wl[i].coinName = c
AlreadyFirstOnly(wl, c) == Len(wl) > 0 /\ wl[1].coinId = c

\* user.watchlist.some(item => item.coinId === coinId)
AlreadyInWatchlist(wl, c) == \E i \in 1..Len(wl) : wl[i].coinId = c

\* variant of the filter: the predicate inverted
FilterInverted(wl, c) == SelectSeq(wl, LAMBDA item : item.coinId = c)

\* user.watchlist.filter(item => item.coinId !== coinId)
RECURSIVE Filter(_, _)
Filter(wl, c) ==
  IF wl = << >> THEN << >>
  ELSE IF Head(wl).coinId # c THEN <<Head(wl)>> \o Filter(Tail(wl), c)
  ELSE Filter(Tail(wl), c)

\* variant of the push: the item is put in front
PushFront(wl, c, n) == <<Item(c, n)>> \o wl

\* user.watchlist.push({ coinId, coinName })
Push(wl, c, n) == Append(wl, Item(c, n))

\* variants of the freshness test: the comparison reversed; <= for <
IsFreshReversed(t, cachedAt) == (t - cachedAt) > TTL
IsFreshInclusive(t, cachedAt) == (t - cachedAt) <= TTL

\* variant of the freshness test: the window one millisecond shorter
IsFreshEarly(t, cachedAt) == (t - cachedAt) < TTL - 1

\* (now - entry.cachedAt) < 30000
IsFresh(t, cachedAt) == (t - cachedAt) < TTL

NoDup(wl) == \A i, j \in 1..Len(wl) : wl[i].coinId = wl[j].coinId => i = j

\* the watchlists a user record can hold when the process starts
Watchlists == {wl \in UNION {[1..n -> Items] : n \in 0..Cardinality(Coins)} : NoDup(wl)}

\* ---------------------------------------------------------------- state
VARIABLES
  now,            \* Date.now()
  topCache,       \* module variable topCache
  watchlistCache, \* module variable watchlistCache: key -> entry
  populatedBy,    \* history: key -> the watchlist whose request stored the entry
  dbWatchlist,    \* the watchlist field of the stored user record
  req,            \* per slot: the handler invocation suspended in it
  ended,          \* the handler invocation that ended last, with its response
  quota           \* requests that may still arrive

vars == <<now, topCache, watchlistCache, populatedBy, dbWatchlist, req, ended, quota>>

\* pc: where the handler is suspended; kind: the route; coinId, coinName: the
\* request's parameters; loaded: user.watchlist as the first read returned it;
\* list: user.watchlist of the document in the handler; key: coinIds; now0: the
\* handler's constant now; cached: the entry its cache check read; calls:
\* upstream calls this request has issued; faults: the awaits of this request
\* that rejected; status, body: the response.  History: at: Date.now() when a
\* GET /watchlist request arrived, kept until the handler takes its own now;
\* replaced: the stored watchlist that the save of this request overwrote
Idle == [pc |-> "idle", kind |-> "none", coinId |-> "", coinName |-> "",
         loaded |-> << >>, list |-> << >>, key |-> "", now0 |-> 0, cached |-> Null,
         calls |-> 0, at |-> 0, replaced |-> << >>,
         faults |-> {}, status |-> 0, body |-> NoBody]

\* the process has just started: the caches are as lines 7-8 build them, no
\* request is in progress, the user record holds any duplicate-free watchlist
Init ==
  /\ now = 0
  /\ topCache = [data |-> Null, cachedAt |-> 0]
  /\ watchlistCache = << >>
  /\ populatedBy = << >>
  /\ dbWatchlist \in Watchlists
  /\ req = [r \in Slots |-> Idle]
  /\ ended = Idle
  /\ quota = MaxRequests

\* res.status(s).json(b)
Respond(q, s, b) == [q EXCEPT !.pc = "done", !.status = s, !.body = b]

\* an error thrown outside any try block: the promise the handler returned
\* rejects and the handler has sent nothing
Escape(q) == [q EXCEPT !.pc = "escaped"]

\* await rejected
Fault(q, f) == [q EXCEPT !.faults = @ \cup {f}]

\* the handler invocation in slot r returns
Finish(r, q) ==
  /\ ended' = q
  /\ req' = [req EXCEPT ![r] = Idle]

\* the handler invocation in slot r suspends at an await
Suspend(r, q) ==
  /\ req' = [req EXCEPT ![r] = q]
  /\ UNCHANGED ended

\* a request is routed to its handler; the slots are interchangeable, so it
\* takes the first free one
Arrive(r) ==
  /\ req[r].pc = "idle"
  /\ \A s \in Slots : s < r => req[s].pc # "idle"
  /\ quota > 0
  /\ quota' = quota - 1

Request(kind, c, n) == [Idle EXCEPT !.kind = kind, !.coinId = c, !.coinName = n]

\* time passes
Tick ==
  /\ \E t \in Times : t > now /\ now' = t
  /\ UNCHANGED <<topCache, watchlistCache, populatedBy, dbWatchlist, req, ended, quota>>

\* ------------------------------------------------------------ GET /top
\* topCache.data && (now - topCache.cachedAt) < 30000
TopFresh(t) == topCache.data # Null /\ IsFresh(t, topCache.cachedAt)

\* lines 12-18: cache check, then the upstream call is issued
TopRequest(r) ==
  /\ Arrive(r)
  /\ LET q == [Request("top", "", "") EXCEPT
                 !.now0 = now,
                 !.cached = IF topCache.data # Null THEN topCache ELSE Null]
     IN  IF TopFresh(now)
         THEN Finish(r, Respond(q, 200, topCache.data))
         ELSE Suspend(r, [q EXCEPT !.pc = "top_await", !.calls = @ + 1])
  /\ UNCHANGED <<now, topCache, watchlistCache, populatedBy, dbWatchlist>>

\* lines 23-24: the upstream call resolved
TopUpstreamOk(r) ==
  /\ req[r].pc = "top_await"
  /\ LET data == Payload(TopQuery, now)
     IN  /\ topCache' = [data |-> data, cachedAt |-> now]
         /\ Finish(r, Respond(req[r], 200, data))
  /\ UNCHANGED <<now, watchlistCache, populatedBy, dbWatchlist, quota>>

\* lines 25-32: the upstream call rejected
TopUpstreamFail(r) ==
  /\ req[r].pc = "top_await"
  /\ LET q == Fault(req[r], "upstream")
     IN  IF topCache.data # Null
         THEN Finish(r, Respond(q, 200, topCache.data))
         ELSE Finish(r, Respond(q, 500, [error |-> "Failed to fetch crypto data"]))
  /\ UNCHANGED <<now, topCache, watchlistCache, populatedBy, dbWatchlist, quota>>

\* -------------------------------------------------------- GET /coin/:id
\* lines 37-38: the upstream call is issued
CoinRequest(r) ==
  /\ Arrive(r)
  /\ \E c \in Coins :
       Suspend(r, [Request("coin", c, "") EXCEPT !.pc = "coin_await", !.calls = @ + 1])
  /\ UNCHANGED <<now, topCache, watchlistCache, populatedBy, dbWatchlist>>

\* line 42
CoinUpstreamOk(r) ==
  /\ req[r].pc = "coin_await"
  /\ Finish(r, Respond(req[r], 200, Payload(req[r].coinId, now)))
  /\ UNCHANGED <<now, topCache, watchlistCache, populatedBy, dbWatchlist, quota>>

\* variant of the catch: the fallback of GET /top pasted into GET /coin/:id
CoinFallsBack(r) ==
  /\ req[r].pc = "coin_await"
  /\ LET q == Fault(req[r], "upstream")
     IN  IF topCache.data # Null
         THEN Finish(r, Respond(q, 200, topCache.data))
         ELSE Finish(r, Respond(q, 500, [error |-> "Failed to fetch coin data"]))
  /\ UNCHANGED <<now, topCache, watchlistCache, populatedBy, dbWatchlist, quota>>

\* lines 43-45
CoinUpstreamFail(r) ==
  /\ req[r].pc = "coin_await"
  /\ Finish(r, Respond(Fault(req[r], "upstream"), 500,
                       [error |-> "Failed to fetch coin data"]))
  /\ UNCHANGED <<now, topCache, watchlistCache, populatedBy, dbWatchlist, quota>>

\* ------------------------------------------------------ user record
\* User.findById(req.userId) resolved: the document holds the stored watchlist
FindById == dbWatchlist

\* user.save() resolved: the stored watchlist is rewritten as a whole
Save(wl) == dbWatchlist' = wl

\* ------------------------------------------------------ POST /watchlist
\* lines 50-51: the read is issued
AddRequest(r) ==
  /\ Arrive(r)
  /\ \E c \in Coins, n \in Names :
       Suspend(r, [Request("add", c, n) EXCEPT !.pc = "add_read"])
  /\ UNCHANGED <<now, topCache, watchlistCache, populatedBy, dbWatchlist>>

\* lines 54-60: the read resolved; duplicate check, push, then the save is issued
AddReadOk(r) ==
  /\ req[r].pc = "add_read"
  /\ LET wl == FindById
         q == [req[r] EXCEPT !.loaded = wl, !.list = wl]
     IN  IF AlreadyInWatchlist(wl, q.coinId)
         THEN Finish(r, Respond(q, 400, [error |-> "Coin already in watchlist"]))
         ELSE Suspend(r, [q EXCEPT !.pc = "add_save",
                                   !.list = Push(wl, q.coinId, q.coinName)])
  /\ UNCHANGED <<now, topCache, watchlistCache, populatedBy, dbWatchlist, quota>>

\* lines 63-65: the read rejected, or found no document
AddReadFail(r) ==
  /\ req[r].pc = "add_read"
  /\ Finish(r, Respond(Fault(req[r], "read"), 500, [error |-> "Server error"]))
  /\ UNCHANGED <<now, topCache, watchlistCache, populatedBy, dbWatchlist, quota>>

\* variant of the write: the push is applied to the stored list, not to the
\* list the handler loaded
AddSaveMerging(r) ==
  /\ req[r].pc = "add_save"
  /\ Save(Push(dbWatchlist, req[r].coinId, req[r].coinName))
  /\ Finish(r, Respond([req[r] EXCEPT !.replaced = dbWatchlist], 200,
                       [message |-> "Added to watchlist", watchlist |-> req[r].list]))
  /\ UNCHANGED <<now, topCache, watchlistCache, populatedBy, quota>>

\* line 62: the save resolved
AddSaveOk(r) ==
  /\ req[r].pc = "add_save"
  /\ Save(req[r].list)
  /\ Finish(r, Respond([req[r] EXCEPT !.replaced = dbWatchlist], 200,
                       [message |-> "Added to watchlist", watchlist |-> req[r].list]))
  /\ UNCHANGED <<now, topCache, watchlistCache, populatedBy, quota>>

\* lines 63-65: the save rejected
AddSaveFail(r) ==
  /\ req[r].pc = "add_save"
  /\ Finish(r, Respond(Fault(req[r], "save"), 500, [error |-> "Server error"]))
  /\ UNCHANGED <<now, topCache, watchlistCache, populatedBy, dbWatchlist, quota>>

\* --------------------------------------------- DELETE /watchlist/:coinId
\* lines 70-71: the read is issued
RemoveRequest(r) ==
  /\ Arrive(r)
  /\ \E c \in Coins :
       Suspend(r, [Request("remove", c, "") EXCEPT !.pc = "remove_read"])
  /\ UNCHANGED <<now, topCache, watchlistCache, populatedBy, dbWatchlist>>

\* lines 73-74: the read resolved; filter, then the save is issued
RemoveReadOk(r) ==
  /\ req[r].pc = "remove_read"
  /\ LET wl == FindById
     IN  Suspend(r, [req[r] EXCEPT !.pc = "remove_save", !.loaded = wl,
                                   !.list = Filter(wl, req[r].coinId)])
  /\ UNCHANGED <<now, topCache, watchlistCache, populatedBy, dbWatchlist, quota>>

\* lines 77-79: the read rejected, or found no document
RemoveReadFail(r) ==
  /\ req[r].pc = "remove_read"
  /\ Finish(r, Respond(Fault(req[r], "read"), 500, [error |-> "Server error"]))
  /\ UNCHANGED <<now, topCache, watchlistCache, populatedBy, dbWatchlist, quota>>

\* line 76: the save resolved
RemoveSaveOk(r) ==
  /\ req[r].pc = "remove_save"
  /\ Save(req[r].list)
  /\ Finish(r, Respond([req[r] EXCEPT !.replaced = dbWatchlist], 200,
                       [message |-> "Removed from watchlist", watchlist |-> req[r].list]))
  /\ UNCHANGED <<now, topCache, watchlistCache, populatedBy, quota>>

\* lines 77-79: the save rejected
RemoveSaveFail(r) ==
  /\ req[r].pc = "remove_save"
  /\ Finish(r, Respond(Fault(req[r], "save"), 500, [error |-> "Server error"]))
  /\ UNCHANGED <<now, topCache, watchlistCache, populatedBy, dbWatchlist, quota>>

\* -------------------------------------------------------- GET /watchlist
\* variant of the empty check: never true
IsEmptyNever(wl) == Len(wl) < 0

\* user.watchlist.length === 0
IsEmpty(wl) == Len(wl) = 0

\* watchlistCache[key]: an entry, or undefined
HasEntry(key) == key \in DOMAIN watchlistCache

\* cached && (now - cached.cachedAt) < 30000
ListFresh(key, t) == HasEntry(key) /\ IsFresh(t, watchlistCache[key].cachedAt)

\* variant of the cache write: an entry that exists is kept
PutEntryIfAbsent(key, data) ==
  [k \in DOMAIN watchlistCache \cup {key} |->
     IF k \in DOMAIN watchlistCache
     THEN watchlistCache[k] ELSE [data |-> data, cachedAt |-> now]]

\* variant of the cache write: the map is replaced by the one new entry
PutEntryOnly(key, data) ==
  [k \in {key} |-> [data |-> data, cachedAt |-> now]]

\* variant of the cache write: one entry shared by every key
PutEntryShared(key, data) ==
  [k \in DOMAIN watchlistCache \cup {key} |-> [data |-> data, cachedAt |-> now]]

\* watchlistCache[key] = { data, cachedAt: Date.now() }
PutEntry(key, data) ==
  [k \in DOMAIN watchlistCache \cup {key} |->
     IF k = key THEN [data |-> data, cachedAt |-> now] ELSE watchlistCache[k]]

\* line 84: the read is issued
ListRequest(r) ==
  /\ Arrive(r)
  /\ Suspend(r, [Request("list", "", "") EXCEPT !.pc = "list_read", !.at = now])
  /\ UNCHANGED <<now, topCache, watchlistCache, populatedBy, dbWatchlist>>

\* lines 86-101: the read resolved; empty check, key, cache check, then the
\* upstream call is issued
ListReadOk(r) ==
  /\ req[r].pc = "list_read"
  /\ LET wl == FindById
         coinIds == CacheKey(wl)
         q == [req[r] EXCEPT !.loaded = wl, !.list = wl]
         k == [q EXCEPT !.key = coinIds, !.now0 = now, !.at = 0,
                       !.cached = IF HasEntry(coinIds) THEN watchlistCache[coinIds] ELSE Null]
     IN  IF IsEmpty(wl)
         THEN Finish(r, Respond(q, 200, EmptyArray))
         ELSE IF ListFresh(coinIds, now)
         THEN Finish(r, Respond(k, 200, watchlistCache[coinIds].data))
         ELSE Suspend(r, [k EXCEPT !.pc = "list_await", !.calls = @ + 1])
  /\ UNCHANGED <<now, topCache, watchlistCache, populatedBy, dbWatchlist, quota>>

\* line 84 threw: the catch block runs and issues the second read (line 110)
ListReadFail(r) ==
  /\ req[r].pc = "list_read"
  /\ Suspend(r, [Fault(req[r], "read") EXCEPT !.pc = "list_catch"])
  /\ UNCHANGED <<now, topCache, watchlistCache, populatedBy, dbWatchlist, quota>>

\* lines 106-107: the upstream call resolved
ListUpstreamOk(r) ==
  /\ req[r].pc = "list_await"
  /\ LET data == Payload(req[r].key, now)
     IN  /\ watchlistCache' = PutEntry(req[r].key, data)
         /\ populatedBy' = [k \in DOMAIN populatedBy \cup {req[r].key} |->
                              IF k = req[r].key THEN req[r].loaded ELSE populatedBy[k]]
         /\ Finish(r, Respond(req[r], 200, data))
  /\ UNCHANGED <<now, topCache, dbWatchlist, quota>>

\* line 101 threw: the catch block runs and issues the second read (line 110)
ListUpstreamFail(r) ==
  /\ req[r].pc = "list_await"
  /\ Suspend(r, [Fault(req[r], "upstream") EXCEPT !.pc = "list_catch"])
  /\ UNCHANGED <<now, topCache, watchlistCache, populatedBy, dbWatchlist, quota>>

\* lines 111-118: the second read resolved; the key is derived again from it
ListCatchReadOk(r) ==
  /\ req[r].pc = "list_catch"
  /\ LET coinIdsKey == CacheKey(FindById)
     IN  IF HasEntry(coinIdsKey)
         THEN Finish(r, Respond(req[r], 200, watchlistCache[coinIdsKey].data))
         ELSE Finish(r, Respond(req[r], 500, [error |-> "Failed to fetch watchlist data"]))
  /\ UNCHANGED <<now, topCache, watchlistCache, populatedBy, dbWatchlist, quota>>

\* line 110 threw inside the catch block, or the document it found is null
\* and line 111 threw: nothing catches it
ListCatchReadFail(r) ==
  /\ req[r].pc = "list_catch"
  /\ Finish(r, Escape(Fault(req[r], "read2")))
  /\ UNCHANGED <<now, topCache, watchlistCache, populatedBy, dbWatchlist, quota>>

\* ---------------------------------------------------------------- system
Next ==
  \/ Tick
  \/ \E r \in Slots :
       \/ TopRequest(r) \/ TopUpstreamOk(r) \/ TopUpstreamFail(r)
       \/ CoinRequest(r) \/ CoinUpstreamOk(r) \/ CoinUpstreamFail(r)
       \/ AddRequest(r) \/ AddReadOk(r) \/ AddReadFail(r)
       \/ AddSaveOk(r) \/ AddSaveFail(r)
       \/ RemoveRequest(r) \/ RemoveReadOk(r) \/ RemoveReadFail(r)
       \/ RemoveSaveOk(r) \/ RemoveSaveFail(r)
       \/ ListRequest(r) \/ ListReadOk(r) \/ ListReadFail(r)
       \/ ListUpstreamOk(r) \/ ListUpstreamFail(r)
       \/ ListCatchReadOk(r) \/ ListCatchReadFail(r)

Spec == Init /\ [][Next]_vars

\* only watchlist requests arrive
InitW ==
  /\ now = 0
  /\ topCache = [data |-> Null, cachedAt |-> 0]
  /\ watchlistCache = << >>
  /\ populatedBy = << >>
  /\ dbWatchlist \in Watchlists
  /\ req = [r \in Slots |-> Idle]
  /\ ended = Idle
  /\ quota = MaxListRequests

NextW ==
  \/ Tick
  \/ \E r \in Slots :
       \/ AddRequest(r) \/ AddReadOk(r) \/ AddReadFail(r)
       \/ AddSaveOk(r) \/ AddSaveFail(r)
       \/ RemoveRequest(r) \/ RemoveReadOk(r) \/ RemoveReadFail(r)
       \/ RemoveSaveOk(r) \/ RemoveSaveFail(r)
       \/ ListRequest(r) \/ ListReadOk(r) \/ ListReadFail(r)
       \/ ListUpstreamOk(r) \/ ListUpstreamFail(r)
       \/ ListCatchReadOk(r) \/ ListCatchReadFail(r)

SpecW == InitW /\ [][NextW]_vars

\* identifiers that are stored in the watchlist but that no request names
StoredCoins == {"ada", "sol"}

\* stored watchlists of up to two items, over all identifiers
StoredWatchlists ==
  {wl \in UNION {[1..n -> {Item(c, n2) : c \in Coins \cup StoredCoins, n2 \in Names}] :
                   n \in 0..Cardinality(Coins)} : NoDup(wl)}

\* only Add and Remove requests arrive, on a watchlist that holds other items
InitO ==
  /\ now = 0
  /\ topCache = [data |-> Null, cachedAt |-> 0]
  /\ watchlistCache = << >>
  /\ populatedBy = << >>
  /\ dbWatchlist \in StoredWatchlists
  /\ req = [r \in Slots |-> Idle]
  /\ ended = Idle
  /\ quota = MaxOrderRequests

NextO ==
  \E r \in Slots :
    \/ AddRequest(r) \/ AddReadOk(r) \/ AddReadFail(r)
    \/ AddSaveOk(r) \/ AddSaveFail(r)
    \/ RemoveRequest(r) \/ RemoveReadOk(r) \/ RemoveReadFail(r)
    \/ RemoveSaveOk(r) \/ RemoveSaveFail(r)

SpecO == InitO /\ [][NextO]_vars

\* ---------------------------------------------------------------- claims
\* the handler invocation in slot r returns in this step; ended' is its record
Ends(r) == req[r].pc # "idle" /\ req'[r].pc = "idle"

InList(wl, c) == c \in {wl[i].coinId : i \in 1..Len(wl)}
IdSet(wl) == {wl[i].coinId : i \in 1..Len(wl)}

\* the cache check of invocation q read an entry younger than the TTL
SawFresh(q) == q.cached # Null /\ (q.now0 - q.cached.cachedAt) < 30000

\* the cache check of invocation q read an entry at least as old as the TTL
SawExpired(q) == q.cached # Null /\ (q.now0 - q.cached.cachedAt) >= 30000

\* C1 - Cache hit: a GET /top or GET /watchlist request whose cache check finds
\* an entry for its key with now - cachedAt < 30000 answers 200 with exactly
\* the payload stored in that entry and issues no upstream call (no request
\* that saw a fresh entry is ever waiting for the upstream).
CacheHit ==
  /\ \A r \in Slots : ~SawFresh(req[r])
  /\ SawFresh(ended) =>
       /\ ended.pc = "done"
       /\ ended.status = 200
       /\ ended.body = ended.cached.data
       /\ ended.calls = 0

CacheHitWitness ==
  /\ ended.kind = "list"
  /\ SawFresh(ended)
  /\ ended.status = 200
  /\ ended.calls = 0
  /\ ended.key \in DOMAIN watchlistCache
  /\ watchlistCache[ended.key].data = ended.body
  /\ topCache.data # Null

\* C4 - Cache expiry: a request whose cache check finds an entry aged TTL or
\* more issues exactly one upstream call; when that call succeeds the entry of
\* its key becomes exactly { data: the new payload, cachedAt: the time of
\* completion } and the new payload is the response.
CacheExpiry ==
  [][ /\ \A r \in Slots : SawExpired(req'[r]) => req'[r].calls = 1
      /\ SawExpired(ended') => ended'.calls = 1
      /\ \A r \in Slots :
           (Ends(r) /\ SawExpired(req[r]) /\ ended'.faults = {}) =>
             /\ ended'.status = 200
             /\ ended'.body # req[r].cached.data
             /\ IF req[r].kind = "top"
                THEN /\ ended'.body = [q |-> "top", t |-> now]
                     /\ topCache' = [data |-> ended'.body, cachedAt |-> now]
                ELSE /\ ended'.body = [q |-> req[r].key, t |-> now]
                     /\ DOMAIN watchlistCache' = DOMAIN watchlistCache
                     /\ \A k \in DOMAIN watchlistCache :
                          watchlistCache'[k] =
                            IF k = req[r].key
                            THEN [data |-> ended'.body, cachedAt |-> now]
                            ELSE watchlistCache[k]
    ]_vars

CacheExpiryWitness ==
  /\ ended.kind = "list"
  /\ SawExpired(ended)
  /\ ended.calls = 1
  /\ ended.status = 200
  /\ ended.faults = {}
  /\ watchlistCache[ended.key] = [data |-> ended.body, cachedAt |-> now]
  /\ watchlistCache[ended.key] # ended.cached

\* C5 - Watchlist uniqueness: in every reachable state, whatever the
\* interleaving of Add and Remove requests, no coinId occurs twice in the
\* stored watchlist.
WatchlistUnique ==
  \A i, j \in 1..Len(dbWatchlist) :
    dbWatchlist[i].coinId = dbWatchlist[j].coinId => i = j

\* an Add is about to save a coin that a concurrent Add has stored meanwhile
WatchlistUniqueWitness ==
  /\ ended.kind = "add"
  /\ ended.status = 200
  /\ \E r \in Slots :
       /\ req[r].pc = "add_save"
       /\ req[r].coinId = ended.coinId
       /\ InList(dbWatchlist, req[r].coinId)
       /\ ~InList(req[r].loaded, req[r].coinId)

\* C6 - Watchlist dedup: an Add whose loaded watchlist already holds coinId
\* answers 400 "Coin already in watchlist" (not 500), never issues the save and
\* leaves the stored watchlist as it is.
WatchlistDedup ==
  [][ \A r \in Slots :
        ( /\ req[r].pc = "add_read"
          /\ req'[r].pc # "add_read"
          /\ ~(Ends(r) /\ "read" \in ended'.faults)
          /\ InList(dbWatchlist, req[r].coinId) ) =>
            /\ Ends(r)
            /\ ended'.status = 400
            /\ ended'.body = [error |-> "Coin already in watchlist"]
            /\ ended'.loaded = dbWatchlist
            /\ dbWatchlist' = dbWatchlist
    ]_vars

\* the same coin added twice in sequence: the list still has one item
WatchlistDedupWitness ==
  /\ ended.kind = "add"
  /\ ended.status = 400
  /\ InList(ended.loaded, ended.coinId)
  /\ dbWatchlist = ended.loaded
  /\ Len(dbWatchlist) = 1

\* C2 - Stale fallback: whenever the upstream call of a GET /top or GET
\* /watchlist request has failed and a cache entry exists for the key of that
\* request, the request ends with 200 and the payload stored in that entry,
\* however old the entry is, and the caches are left as they are.
StaleFallback ==
  [][ \A r \in Slots :
        /\ ( /\ Ends(r)
             /\ req[r].pc = "top_await"
             /\ "upstream" \in ended'.faults
             /\ topCache.data # Null ) =>
               /\ ended'.pc = "done"
               /\ ended'.status = 200
               /\ ended'.body = topCache.data
               /\ topCache' = topCache
        /\ ( /\ Ends(r)
             /\ req[r].pc = "list_catch"
             /\ "upstream" \in req[r].faults
             /\ req[r].key \in DOMAIN watchlistCache ) =>
               /\ ended'.pc = "done"
               /\ ended'.status = 200
               /\ ended'.body = watchlistCache[req[r].key].data
               /\ watchlistCache' = watchlistCache
    ]_vars

\* C3 - Cold failure: whenever the upstream call of a GET /top or GET
\* /watchlist request has failed and no cache entry exists for the key of that
\* request, the request ends with a 500 error, never with a payload, and it
\* creates no cache entry.
ColdFailure ==
  [][ \A r \in Slots :
        /\ ( /\ Ends(r)
             /\ req[r].pc = "top_await"
             /\ "upstream" \in ended'.faults
             /\ topCache.data = Null ) =>
               /\ ended'.pc = "done"
               /\ ended'.status = 500
               /\ ended'.body = [error |-> "Failed to fetch crypto data"]
               /\ topCache' = topCache
        /\ ( /\ Ends(r)
             /\ req[r].pc = "list_catch"
             /\ "upstream" \in req[r].faults
             /\ req[r].key \notin DOMAIN watchlistCache ) =>
               /\ ended'.pc = "done"
               /\ ended'.status = 500
               /\ ended'.body = [error |-> "Failed to fetch watchlist data"]
               /\ watchlistCache' = watchlistCache
    ]_vars

\* C7 as stated - Removal idempotence: a Remove whose loaded watchlist does
\* not hold coinId ends with 200, returns the loaded watchlist and stores it
\* unchanged.
RemoveAbsentSucceeds ==
  [][ \A r \in Slots :
        ( /\ Ends(r)
          /\ req[r].pc = "remove_save"
          /\ ~InList(req[r].loaded, req[r].coinId) ) =>
            /\ ended'.status = 200
            /\ ended'.body.watchlist = req[r].loaded
            /\ dbWatchlist' = req[r].loaded
    ]_vars

\* C7 as amended - a Remove whose loaded watchlist does not hold coinId never
\* fails because of that: when its save resolves it answers 200 "Removed from
\* watchlist" with exactly the loaded watchlist and stores exactly the loaded
\* watchlist; when its save rejects it answers 500 and stores nothing.  After
\* any Remove that answered 200 the stored watchlist does not hold coinId, so a
\* second Remove of it in sequence stores the same list again.
RemoveAbsent ==
  [][ \A r \in Slots :
        /\ ( /\ Ends(r)
             /\ req[r].pc = "remove_save"
             /\ ~InList(req[r].loaded, req[r].coinId) ) =>
               IF "save" \in ended'.faults
               THEN /\ ended'.status = 500
                    /\ ended'.body = [error |-> "Server error"]
                    /\ dbWatchlist' = dbWatchlist
               ELSE /\ ended'.status = 200
                    /\ ended'.body = [message |-> "Removed from watchlist",
                                      watchlist |-> req[r].loaded]
                    /\ dbWatchlist' = req[r].loaded
        /\ ( /\ Ends(r)
             /\ req[r].kind = "remove"
             /\ ended'.status = 200 ) =>
               /\ ~InList(dbWatchlist', req[r].coinId)
               /\ ended'.body.watchlist = dbWatchlist'
    ]_vars

\* a Remove of a coin that the non-empty watchlist did not hold has answered
RemoveAbsentWitness ==
  /\ ended.kind = "remove"
  /\ ended.status = 200
  /\ ended.loaded # << >>
  /\ ~InList(ended.loaded, ended.coinId)
  /\ dbWatchlist = ended.loaded
  /\ ended.body.watchlist = ended.loaded

\* C8 - Cache key order-independence: when a List request loads a watchlist
\* that holds the same set of coinIds as the watchlist for which an entry was
\* stored, in whatever order, and that entry is younger than the TTL, the
\* request derives the key of that entry, answers 200 with its payload and
\* issues no upstream call.
KeyOrderIndependent ==
  [][ \A r \in Slots :
        ( /\ req[r].pc = "list_read"
          /\ req'[r].pc # "list_read"
          /\ req'[r].pc # "list_catch" ) =>
            \A k \in DOMAIN populatedBy :
              ( /\ IdSet(populatedBy[k]) = IdSet(dbWatchlist)
                /\ (now - watchlistCache[k].cachedAt) < 30000 ) =>
                  /\ Ends(r)
                  /\ ended'.key = k
                  /\ ended'.status = 200
                  /\ ended'.body = watchlistCache[k].data
                  /\ ended'.calls = 0
    ]_vars

\* the entry was stored for one ordering and has served the other one
KeyOrderIndependentWitness ==
  /\ ended.kind = "list"
  /\ ended.status = 200
  /\ ended.calls = 0
  /\ ended.key \in DOMAIN populatedBy
  /\ populatedBy[ended.key] # ended.loaded
  /\ IdSet(populatedBy[ended.key]) = IdSet(ended.loaded)
  /\ ended.body = watchlistCache[ended.key].data

\* C9 - Empty watchlist: a List request whose read returns an empty watchlist
\* answers 200 with an empty array; it derives no key, reads no cache entry,
\* issues no upstream call, and no entry is ever stored for the empty set.
EmptyWatchlist ==
  /\ \A r \in Slots :
       (req[r].pc \in {"list_await", "list_catch"} /\ "read" \notin req[r].faults) =>
         req[r].loaded # << >>
  /\ (ended.kind = "list" /\ "read" \notin ended.faults /\ ended.loaded = << >>) =>
       /\ ended.pc = "done"
       /\ ended.status = 200
       /\ ended.body = EmptyArray
       /\ ended.calls = 0
       /\ ended.key = ""
       /\ ended.cached = Null
       /\ ended.faults = {}
  /\ "" \notin DOMAIN watchlistCache

\* an empty watchlist was listed while the cache held entries
EmptyWatchlistWitness ==
  /\ ended.kind = "list"
  /\ ended.faults = {}
  /\ ended.loaded = << >>
  /\ ended.status = 200
  /\ ended.body = EmptyArray
  /\ DOMAIN watchlistCache # {}

\* the response shapes of the interface table
DocumentedShape(q) ==
  \/ q.kind \in {"top", "coin", "list"} /\ q.status = 200 /\ q.body = EmptyArray
  \/ q.kind \in {"top", "coin", "list"} /\ q.status = 200
       /\ DOMAIN q.body = {"q", "t"}
  \/ q.kind \in {"add", "remove"} /\ q.status = 200
       /\ DOMAIN q.body = {"message", "watchlist"}
  \/ q.kind = "add" /\ q.status = 400 /\ DOMAIN q.body = {"error"}
  \/ q.status = 500 /\ DOMAIN q.body = {"error"}

\* C10 - All failures are caught at the handler boundary: every handler
\* invocation that has ended sent a response of a documented shape; none ended
\* with a failure escaping it.
AllFailuresCaught ==
  ended.pc # "idle" => (ended.pc = "done" /\ DocumentedShape(ended))

\* C11 - Persistence fault yields a generic 500: whenever the read or the
\* save of the user record has failed during an Add, Remove or List request,
\* that request ends with a 500 error response, never with 200, and it leaves
\* the stored watchlist as it is.
PersistenceFault500 ==
  [][ \A r \in Slots :
        ( /\ Ends(r)
          /\ req[r].kind \in {"add", "remove", "list"}
          /\ ended'.faults \cap {"read", "save", "read2"} # {} ) =>
            /\ ended'.pc = "done"
            /\ ended'.status = 500
            /\ DOMAIN ended'.body = {"error"}
            /\ dbWatchlist' = dbWatchlist
    ]_vars

\* C12 - Single-coin detail is never cached: every GET /coin/:id request
\* issues one upstream call on arrival whatever the caches hold; when the call
\* fails it answers 500, also when the caches are populated; when it succeeds
\* it answers the payload of that call; it leaves both caches as they were.
CoinNeverCached ==
  [][ \A r \in Slots :
        /\ (req[r].pc = "idle" /\ req'[r].kind = "coin") =>
             /\ req'[r].pc = "coin_await"
             /\ req'[r].calls = 1
             /\ topCache' = topCache
             /\ watchlistCache' = watchlistCache
        /\ (Ends(r) /\ req[r].kind = "coin") =>
             /\ ended'.pc = "done"
             /\ ended'.calls = 1
             /\ topCache' = topCache
             /\ watchlistCache' = watchlistCache
             /\ IF "upstream" \in ended'.faults
                THEN /\ ended'.status = 500
                     /\ ended'.body = [error |-> "Failed to fetch coin data"]
                ELSE /\ ended'.status = 200
                     /\ ended'.body = [q |-> req[r].coinId, t |-> now]
    ]_vars

\* a coin request failed with 500 while both caches held entries
CoinNeverCachedWitness ==
  /\ ended.kind = "coin"
  /\ ended.status = 500
  /\ ended.calls = 1
  /\ topCache.data # Null
  /\ DOMAIN watchlistCache # {}

\* C13 - List fallback uses the same key: every response that a List request
\* sends after its upstream call failed is 200 with the payload of the entry
\* stored under the key derived from the watchlist read at the start of that
\* request, or 500 "Failed to fetch watchlist data" when that key has no
\* entry, also when an Add or Remove committed in between; it is never the raw
\* watchlist.
FallbackSameKey ==
  [][ \A r \in Slots :
        ( /\ Ends(r)
          /\ req[r].pc = "list_catch"
          /\ "upstream" \in req[r].faults
          /\ ended'.pc = "done" ) =>
            IF req[r].key \in DOMAIN watchlistCache
            THEN /\ ended'.status = 200
                 /\ ended'.body = watchlistCache[req[r].key].data
            ELSE /\ ended'.status = 500
                 /\ ended'.body = [error |-> "Failed to fetch watchlist data"]
    ]_vars

\* the full list that a handler in add_save or remove_save is about to write,
\* computed from what it loaded
Written(q) ==
  IF q.kind = "add"
  THEN q.loaded \o <<[coinId |-> q.coinId, coinName |-> q.coinName]>>
  ELSE SelectSeq(q.loaded, LAMBDA item : item.coinId # q.coinId)

\* C14 - Last writer wins: every save that resolves replaces the stored
\* watchlist by the full list its handler built from what it had loaded,
\* whatever other requests stored since that load, and nothing else changes
\* the stored watchlist; so the stored watchlist is always the list written by
\* the save that ran last, and a mutation committed between the load and the
\* save of another request is lost.
LastWriterWins ==
  [][ /\ \A r \in Slots :
           ( /\ Ends(r)
             /\ req[r].pc \in {"add_save", "remove_save"}
             /\ "save" \notin ended'.faults ) =>
               /\ dbWatchlist' = Written(req[r])
               /\ ended'.body.watchlist = dbWatchlist'
      /\ dbWatchlist' # dbWatchlist =>
           \E r \in Slots :
             /\ Ends(r)
             /\ req[r].pc \in {"add_save", "remove_save"}
             /\ ended'.status = 200
    ]_vars

\* lost update: the save of an Add has overwritten a stored list that held a
\* coin committed after its load, and that coin is gone
LastWriterWinsWitness ==
  /\ ended.kind = "add"
  /\ ended.status = 200
  /\ dbWatchlist = ended.list
  /\ ended.replaced # ended.loaded
  /\ \E c \in IdSet(ended.replaced) :
       c \notin IdSet(ended.loaded) /\ c \notin IdSet(dbWatchlist)

\* C15 - No single-flight: requests for one key that arrive while its entry
\* is absent or expired each issue their own upstream call, and every upstream
\* call that succeeds stores its own payload under its key, whatever entry a
\* concurrent request stored there meanwhile; so after two concurrent fetches
\* the entry is the payload of the one that completed last.
NoSingleFlight ==
  [][ \A r \in Slots :
        /\ ( /\ Ends(r)
             /\ req[r].pc = "top_await"
             /\ ended'.faults = {} ) =>
               /\ ended'.status = 200
               /\ ended'.body = [q |-> "top", t |-> now]
               /\ topCache' = [data |-> ended'.body, cachedAt |-> now]
        /\ ( /\ Ends(r)
             /\ req[r].pc = "list_await"
             /\ ended'.faults = {} ) =>
               /\ ended'.status = 200
               /\ ended'.body = [q |-> req[r].key, t |-> now]
               /\ req[r].key \in DOMAIN watchlistCache'
               /\ watchlistCache'[req[r].key] = [data |-> ended'.body, cachedAt |-> now]
        /\ ( /\ req[r].pc = "list_read"
             /\ req'[r].pc \notin {"list_read", "list_catch"}
             /\ Len(dbWatchlist) > 0
             /\ \/ CacheKey(dbWatchlist) \notin DOMAIN watchlistCache
                \/ now - watchlistCache[CacheKey(dbWatchlist)].cachedAt >= 30000 ) =>
               /\ req'[r].pc = "list_await"
               /\ req'[r].calls = 1
    ]_vars

\* two fetches for one watchlist key were in flight together: both handlers
\* found no entry, one of them has completed and stored its payload with a
\* later time stamp, and the other is still waiting for the upstream
NoSingleFlightWitness ==
  \E r \in Slots :
    /\ req[r].pc = "list_await"
    /\ req[r].cached = Null
    /\ ended.kind = "list"
    /\ ended.key = req[r].key
    /\ ended.cached = Null
    /\ ended.calls = 1
    /\ ended.status = 200
    /\ ended.faults = {}
    /\ ended.key \in DOMAIN watchlistCache
    /\ watchlistCache[ended.key].data = ended.body
    /\ watchlistCache[ended.key].cachedAt > req[r].now0

\* C16 - No eviction: a key that has a cache entry keeps one in every later
\* state, and a step changes a cache only when it is a successful upstream
\* fetch, which creates or overwrites the entry of its own key; no failure of
\* the upstream or of persistence removes or changes an entry.
NoEviction ==
  [][ /\ topCache.data # Null => topCache'.data # Null
      /\ DOMAIN watchlistCache \subseteq DOMAIN watchlistCache'
      /\ topCache' # topCache =>
           \E r \in Slots :
             /\ Ends(r) /\ req[r].pc = "top_await"
             /\ ended'.status = 200 /\ ended'.faults = {}
      /\ watchlistCache' # watchlistCache =>
           \E r \in Slots :
             /\ Ends(r) /\ req[r].pc = "list_await"
             /\ ended'.status = 200 /\ ended'.faults = {}
             /\ \A k \in DOMAIN watchlistCache :
                  k # req[r].key => watchlistCache'[k] = watchlistCache[k]
    ]_vars

\* a request has failed on the upstream while the top-coins entry and an
\* expired watchlist entry are both still stored
NoEvictionWitness ==
  /\ "upstream" \in ended.faults
  /\ topCache.data # Null
  /\ \E k \in DOMAIN watchlistCache :
       now - watchlistCache[k].cachedAt >= 30000

\* position of coin c in list wl, 0 when absent
IndexOf(wl, c) ==
  IF c \in IdSet(wl) THEN CHOOSE i \in 1..Len(wl) : wl[i].coinId = c ELSE 0

\* C17 - Add appends: a successful Add stores and returns the list it loaded
\* with the new item as last element and every prior item at its position; a
\* successful Remove stores and returns the items of the list it loaded other
\* than the named coin, in the relative order they had.
AddAppends ==
  [][ \A r \in Slots :
        /\ ( /\ Ends(r)
             /\ req[r].kind = "add"
             /\ ended'.status = 200 ) =>
               /\ req[r].coinId \notin IdSet(req[r].loaded)
               /\ Len(dbWatchlist') = Len(req[r].loaded) + 1
               /\ \A i \in 1..Len(req[r].loaded) : dbWatchlist'[i] = req[r].loaded[i]
               /\ dbWatchlist'[Len(dbWatchlist')] =
                    [coinId |-> req[r].coinId, coinName |-> req[r].coinName]
               /\ ended'.body.watchlist = dbWatchlist'
        /\ ( /\ Ends(r)
             /\ req[r].kind = "remove"
             /\ ended'.status = 200 ) =>
               /\ IdSet(dbWatchlist') = IdSet(req[r].loaded) \ {req[r].coinId}
               /\ \A i, j \in 1..Len(dbWatchlist') :
                    /\ dbWatchlist'[i] =
                         req[r].loaded[IndexOf(req[r].loaded, dbWatchlist'[i].coinId)]
                    /\ i < j <=> IndexOf(req[r].loaded, dbWatchlist'[i].coinId)
                                   < IndexOf(req[r].loaded, dbWatchlist'[j].coinId)
               /\ ended'.body.watchlist = dbWatchlist'
    ]_vars

\* an Add has appended a third item, and a Remove has then taken the middle
\* item out of that list, leaving the first and the last in their order
AddAppendsWitness ==
  /\ ended.kind = "remove"
  /\ ended.status = 200
  /\ Len(ended.loaded) = 3
  /\ ended.loaded[2].coinId = ended.coinId
  /\ dbWatchlist = <<ended.loaded[1], ended.loaded[3]>>

\* the age of the entry that the cache check of invocation q read
Age(q) == q.now0 - q.cached.cachedAt

\* C18 - Strict freshness test, both families: a GET /top or GET /watchlist
\* request whose cache check reads an entry aged 29999 ms has answered 200
\* with that entry's payload without an upstream call, and one whose cache
\* check reads an entry aged exactly 30000 ms has issued an upstream call.
StrictBoundary ==
  \A q \in {req[r] : r \in Slots} \cup {ended} :
    (q.kind \in {"top", "list"} /\ q.cached # Null) =>
      /\ Age(q) = 29999 =>
           /\ q.pc = "done"
           /\ q.status = 200
           /\ q.body = q.cached.data
           /\ q.calls = 0
           /\ q.faults = {}
      /\ Age(q) = 30000 => q.calls = 1

\* a List request was served an entry aged 29999 ms, and one millisecond later
\* another List request for the same key found it expired and is waiting for
\* the upstream
StrictBoundaryWitness ==
  \E r \in Slots :
    /\ ended.kind = "list"
    /\ ended.cached # Null
    /\ Age(ended) = 29999
    /\ ended.calls = 0
    /\ ended.status = 200
    /\ req[r].pc = "list_await"
    /\ req[r].key = ended.key
    /\ req[r].cached = ended.cached
    /\ Age(req[r]) = 30000

\* the time at which invocation q started: a List request takes its
\* Date.now() only after its read resolved
StartedAt(q) == IF "read" \in q.faults THEN q.at ELSE q.now0

\* C19 - Expired data only after a failed upstream call: every GET /top or
\* GET /watchlist response that carries a payload whose age at the start of
\* the request was 30000 ms or more comes from a request that issued its own
\* upstream call and saw it fail.
ExpiredOnlyAfterFailure ==
  [][ \A r \in Slots :
        ( /\ Ends(r)
          /\ req[r].kind \in {"top", "list"}
          /\ ended'.pc = "done"
          /\ ended'.status = 200
          /\ DOMAIN ended'.body = {"q", "t"}
          /\ StartedAt(ended') - ended'.body.t >= 30000 ) =>
            /\ ended'.calls = 1
            /\ "upstream" \in ended'.faults
    ]_vars

\* every stored payload answers the query of its own key: the watchlist entry
\* under key k was fetched for k by a request that had loaded populatedBy[k],
\* and distinct keys stand for distinct identifier sets
StoredPerKey(top, cache, by) ==
  /\ top.data # Null => top.data.q = "top" /\ top.data.t = top.cachedAt
  /\ DOMAIN by = DOMAIN cache
  /\ \A k \in DOMAIN cache :
       /\ cache[k].data.q = k
       /\ cache[k].data.t = cache[k].cachedAt
       /\ by[k] # << >>
       /\ \A k2 \in DOMAIN cache : IdSet(by[k]) = IdSet(by[k2]) <=> k = k2

\* C20 - Cache provenance is per key: every stored watchlist payload was
\* fetched for the identifier set of its key and the top-coins payload by a
\* top-coins call; every 200 payload of GET /top is the stored top-coins
\* payload or the result of the request's own call; every 200 payload of
\* GET /watchlist is the result of the request's own call for the watchlist it
\* loaded, or the payload stored for the identifier set of the watchlist that
\* the handler read in the step in which it answers.
ProvenancePerKey ==
  [][ /\ StoredPerKey(topCache', watchlistCache', populatedBy')
      /\ \A r \in Slots :
           ( /\ Ends(r)
             /\ req[r].kind = "top"
             /\ ended'.status = 200 ) =>
               /\ ended'.body.q = "top"
               /\ \/ ended'.body = topCache.data
                  \/ /\ ended'.calls = 1 /\ ended'.faults = {}
                     /\ ended'.body.t = now
                     /\ topCache'.data = ended'.body
      /\ \A r \in Slots :
           ( /\ Ends(r)
             /\ req[r].kind = "list"
             /\ ended'.status = 200
             /\ DOMAIN ended'.body = {"q", "t"} ) =>
               \/ /\ ended'.body.q \in DOMAIN watchlistCache
                  /\ ended'.body = watchlistCache[ended'.body.q].data
                  /\ IdSet(populatedBy[ended'.body.q]) = IdSet(dbWatchlist)
               \/ /\ ended'.calls = 1 /\ ended'.faults = {}
                  /\ ended'.body = [q |-> req[r].key, t |-> now]
                  /\ watchlistCache'[req[r].key].data = ended'.body
                  /\ populatedBy'[req[r].key] = req[r].loaded
    ]_vars

\* two keys hold payloads of their own, and a List request whose upstream call
\* failed has answered with the payload stored for the watchlist as it was
\* when the handler read it last
ProvenancePerKeyWitness ==
  /\ ended.kind = "list"
  /\ "upstream" \in ended.faults
  /\ ended.status = 200
  /\ ended.body.q # ended.key
  /\ ended.body.q \in DOMAIN watchlistCache
  /\ ended.body = watchlistCache[ended.body.q].data
  /\ IdSet(populatedBy[ended.body.q]) = IdSet(dbWatchlist)
====
